---- MODULE Spec2Model ----
(***************************************************************************)
(* Model of webhook_app.py: the LINE webhook that turns a free-text        *)
(* message into a row of a Google Sheets expense ledger.                   *)
(*                                                                         *)
(* Strings are sequences of one-character strings.  Chinese characters are *)
(* written in pinyin, one syllable per character: "jie","shu" is the       *)
(* two-character keyword of line 142, "ka","fei" is coffee.                *)
(* Python values (decoded JSON, sheet cells) are records [t, s, n]:        *)
(* t is the Python type, s the characters of a str, n the number of an     *)
(* int / bool (True = 1) / the integer part of a float x.5.                *)
(***************************************************************************)
EXTENDS Integers, Sequences, FiniteSets, TLC

\* ---------------------------------------------------------------- bounds
\* deliveries of the webhook that one behaviour follows
NumInvocations == 2
\* largest retry budget analyze_message_with_gpt is called with (SpecGpt)
MaxRetries == 2

\* request threads of the hosting server; each runs one callback at a time
Workers == {1, 2}

\* ------------------------------------------------------- Python values
StrV(s) == [t |-> "str", s |-> s, n |-> 0]
IntV(n) == [t |-> "int", s |-> <<>>, n |-> n]
BoolV(n) == [t |-> "bool", s |-> <<>>, n |-> n]
FloatV(n) == [t |-> "float", s |-> <<>>, n |-> n]
NoneV == [t |-> "null", s |-> <<>>, n |-> 0]

\* bool(v) of Python: the test behind `not record.get(...)`
Truthy(v) ==
    CASE v.t = "str" -> v.s # <<>>
      [] v.t = "int" -> v.n # 0
      [] v.t = "bool" -> v.n # 0
      [] v.t = "float" -> TRUE
      [] OTHER -> FALSE

\* isinstance(v, int): bool is a subclass of int
IsInstanceInt(v) == v.t \in {"int", "bool"}

\* isinstance(v, str)
IsInstanceStr(v) == v.t = "str"

\* -------------------------------------------------------------- strings
WS == " "

RECURSIVE LStrip(_)
LStrip(s) == IF s # <<>> /\ Head(s) = WS THEN LStrip(Tail(s)) ELSE s

RECURSIVE RStrip(_)
RStrip(s) ==
    IF s # <<>> /\ s[Len(s)] = WS THEN RStrip(SubSeq(s, 1, Len(s) - 1)) ELSE s

\* str.strip()
Strip(s) == RStrip(LStrip(s))

\* `kw in text` for two strings: substring test
Contains(kw, s) ==
    \E i \in 1..(Len(s) - Len(kw) + 1) : SubSeq(s, i, i + Len(kw) - 1) = kw

RECURSIVE TakeWord(_)
TakeWord(s) ==
    IF s = <<>> \/ Head(s) = WS THEN <<>> ELSE <<Head(s)>> \o TakeWord(Tail(s))

\* str.split(): the words between runs of whitespace
RECURSIVE Split(_)
Split(s) ==
    LET t == LStrip(s)
        w == TakeWord(t)
    IN IF t = <<>> THEN <<>>
       ELSE <<w>> \o Split(SubSeq(t, Len(w) + 1, Len(t)))

DigitChars == <<"0", "1", "2", "3", "4", "5", "6", "7", "8", "9">>

\* str(n) of an integer
RECURSIVE IntStr(_)
IntStr(n) ==
    IF n < 0 THEN <<"-">> \o IntStr(0 - n)
    ELSE IF n < 10 THEN <<DigitChars[n + 1]>>
    ELSE IntStr(n \div 10) \o <<DigitChars[(n % 10) + 1]>>

\* what sheet.get_all_values() returns for a cell that was appended as v
CellStr(v) ==
    CASE v.t = "str" -> v.s
      [] v.t = "int" -> IntStr(v.n)
      [] v.t = "bool" -> IF v.n = 1 THEN <<"T", "R", "U", "E">>
                         ELSE <<"F", "A", "L", "S", "E">>
      [] v.t = "float" -> IntStr(v.n) \o <<".", "5">>
      [] OTHER -> <<>>

\* ------------------------------------------------------ cancel keywords
CANCEL_KEYWORDS ==
    { <<"bu", "yong", "chu", "li">>, <<"rao", "guo">>, <<"jie", "shu">>,
      <<"tiao", "guo">>, <<"mei", "guan", "xi">> }

\* mutant: the text must be a keyword, not contain one
IsCancel_Equal(text) == text \in CANCEL_KEYWORDS

\* any(kw in text for kw in CANCEL_KEYWORDS)
IsCancel(text) == \E kw \in CANCEL_KEYWORDS : Contains(kw, text)

\* ------------------------------------------- the collaborator's response
\* A response text is a sequence of tokens: "lb" is {, "rb" is }, "mem" is
\* one "key": value member (with its comma), "ws" is whitespace and "txt"
\* is any other prose.
LB == [tok |-> "lb", k |-> "", v |-> NoneV]
RB == [tok |-> "rb", k |-> "", v |-> NoneV]
TXT == [tok |-> "txt", k |-> "", v |-> NoneV]
WSP == [tok |-> "ws", k |-> "", v |-> NoneV]
Mem(k, v) == [tok |-> "mem", k |-> k, v |-> v]

\* content.find("{"): index of the first token, 0 when there is none
\* (Python: 0-based index, -1 when there is none)
Find(content, tok) ==
    IF \E i \in 1..Len(content) : content[i].tok = tok
    THEN CHOOSE i \in 1..Len(content) :
            /\ content[i].tok = tok
            /\ \A j \in 1..(i - 1) : content[j].tok # tok
    ELSE 0

\* content.rfind("}"): index of the last token, 0 when there is none
RFind(content, tok) ==
    IF \E i \in 1..Len(content) : content[i].tok = tok
    THEN CHOOSE i \in 1..Len(content) :
            /\ content[i].tok = tok
            /\ \A j \in (i + 1)..Len(content) : content[j].tok # tok
    ELSE 0

\* start == -1 or end == -1
NoBraces(start, end) == start = 0 \/ end = 0

\* content[start:end+1]
Carve(content, start, end) == SubSeq(content, start, end)

NotWs(t) == t.tok # "ws"

\* json.loads accepts json_str: one object, whitespace allowed between tokens
JsonParses(json_str) ==
    LET ts == SelectSeq(json_str, NotWs)
    IN /\ Len(ts) >= 2
       /\ ts[1].tok = "lb"
       /\ ts[Len(ts)].tok = "rb"
       /\ \A i \in 2..(Len(ts) - 1) : ts[i].tok = "mem"

\* d[k] = v of a dict kept as a sequence of members in insertion order
DictSet(d, k, v) ==
    IF \E i \in 1..Len(d) : d[i].k = k
    THEN [i \in 1..Len(d) |-> IF d[i].k = k THEN [k |-> k, v |-> v] ELSE d[i]]
    ELSE Append(d, [k |-> k, v |-> v])

RECURSIVE DictOf(_)
DictOf(mems) ==
    IF mems = <<>> THEN <<>>
    ELSE LET m == mems[Len(mems)]
         IN DictSet(DictOf(SubSeq(mems, 1, Len(mems) - 1)), m.k, m.v)

\* the dict json.loads returns for a json_str it accepts
JsonLoads(json_str) ==
    LET ts == SelectSeq(json_str, NotWs)
    IN DictOf(SubSeq(ts, 2, Len(ts) - 1))

HasKey(d, k) == \E i \in 1..Len(d) : d[i].k = k

\* d.get(k, default)
GetOr(d, k, default) ==
    IF HasKey(d, k) THEN d[CHOOSE i \in 1..Len(d) : d[i].k = k].v ELSE default

\* d.get(k)
Get(d, k) == GetOr(d, k, NoneV)

\* lines 106-115: does this response yield a dict, and which
Decodes(reply) ==
    /\ ~reply.err
    /\ LET start == Find(reply.content, "lb")
           end == RFind(reply.content, "rb")
       IN /\ ~NoBraces(start, end)
          /\ JsonParses(Carve(reply.content, start, end))

Decoded(reply) ==
    JsonLoads(Carve(reply.content, Find(reply.content, "lb"),
                    RFind(reply.content, "rb")))

\* ------------------------------------------------ validation (Step 3)
CategoryMissing(record) == ~Truthy(Get(record, "category"))
ItemMissing(record) == ~Truthy(Get(record, "item"))
UnitPriceMissing(record) == ~IsInstanceInt(Get(record, "unitPrice"))
QuantityMissing(record) == ~IsInstanceInt(Get(record, "quantity"))

\* lines 180-184: the list the four `if ...: MISSING_FIELDS.append(...)` build
MISSING_FIELDS(record) ==
    (IF CategoryMissing(record) THEN <<"category">> ELSE <<>>)
    \o (IF ItemMissing(record) THEN <<"item">> ELSE <<>>)
    \o (IF UnitPriceMissing(record) THEN <<"unitPrice">> ELSE <<>>)
    \o (IF QuantityMissing(record) THEN <<"quantity">> ELSE <<>>)

\* `not record`: None or the empty dict
NotRecord(rec) == rec.none \/ rec.d = <<>>

\* is_valid_record, lines 67-76 (defined by the program, called nowhere)
is_valid_record(record) ==
    /\ HasKey(record, "category") /\ IsInstanceStr(Get(record, "category"))
    /\ HasKey(record, "item") /\ IsInstanceStr(Get(record, "item"))
    /\ HasKey(record, "unitPrice") /\ IsInstanceInt(Get(record, "unitPrice"))
    /\ HasKey(record, "quantity") /\ IsInstanceInt(Get(record, "quantity"))

\* ------------------------------------------ write_record_to_sheet
EmptyStr == StrV(<<>>)

\* record["unitPrice"] * record["quantity"] raises unless both are numbers
TotalRaises(record) ==
    \/ ~HasKey(record, "unitPrice")
    \/ ~HasKey(record, "quantity")
    \/ ~IsInstanceInt(Get(record, "unitPrice"))
    \/ ~IsInstanceInt(Get(record, "quantity"))

\* mutant: the sum instead of the product
Total_Sum(record) == IntV(Get(record, "unitPrice").n + Get(record, "quantity").n)

\* line 49
Total(record) == IntV(Get(record, "unitPrice").n * Get(record, "quantity").n)

\* lines 50-62
Row(now, record) ==
    << now,
       GetOr(record, "category", EmptyStr),
       GetOr(record, "item", EmptyStr),
       GetOr(record, "unitPrice", EmptyStr),
       GetOr(record, "quantity", EmptyStr),
       Total(record),
       GetOr(record, "note", EmptyStr),
       GetOr(record, "caloriesIntake", EmptyStr),
       GetOr(record, "sugarIntake", EmptyStr),
       GetOr(record, "remaining", EmptyStr),
       GetOr(record, "dailyBurn", EmptyStr) >>

\* mutant: a row equal to one the sheet holds, up to the timestamp, is dropped
AppendRow_Idempotent(sheet, row) ==
    IF \E i \in 2..Len(sheet) : Tail(sheet[i]) = Tail(row) THEN sheet ELSE Append(sheet, row)

\* mutant: the sheet is written back from a copy that held only the header
AppendRow_StaleCopy(sheet, row) == <<sheet[1], row>>

\* mutant: the row is written over the last row
AppendRow_Overwrite(sheet, row) == [sheet EXCEPT ![Len(sheet)] = row]

\* sheet.append_row(row): the sheet with the row added after its last row
AppendRow(sheet, row) == Append(sheet, row)

\* --------------------------------------------- the history lookup (Step 1)
\* sheet.get_all_values(): every row, every cell as its text
GetAllValues(sheet) ==
    [i \in 1..Len(sheet) |-> [j \in 1..Len(sheet[i]) |-> CellStr(sheet[i][j])]]

\* all_data[1:]
SkipHeader(all_data) == IF all_data = <<>> THEN <<>> ELSE Tail(all_data)

\* `item in row` for a list row: some cell equals item
InRow(item, row) == \E j \in 1..Len(row) : row[j] = item

\* line 162
MatchedRows(all_data, item) ==
    LET keep(row) == InRow(item, row)
    IN SelectSeq(SkipHeader(all_data), keep)

PreviewRows == 3
PreviewCells == 5

Min(a, b) == IF a < b THEN a ELSE b

\* line 164: r[:5] of each of matched_rows[:3]
Preview(matched_rows) ==
    [i \in 1..Min(PreviewRows, Len(matched_rows)) |->
        SubSeq(matched_rows[i], 1, Min(PreviewCells, Len(matched_rows[i])))]

DefaultRetry == 1

\* ------------------------------------------------------ sample inputs
KaFei == <<"ka", "fei">>
Shi == <<"shi">>
LineNote == <<"L", "I", "N", "E">>

\* message texts: an expense, each cancel keyword (alone, inside a word,
\* padded, first, last), a keyword broken by a space, whitespace only
SampleTexts ==
    { <<"ka", "fei", " ", "5", "0">>,
      <<"jie", "shu">>,
      <<"ka", "fei", "tiao", "guo", "le">>,
      <<" ", "bu", "yong", "chu", "li", " ">>,
      <<"rao", "guo", " ", "5", "0">>,
      <<"suan", "le", "mei", "guan", "xi">>,
      <<"jie", " ", "shu">>,
      <<" ">> }

\* event.source of the LINE SDK: SourceUser, SourceGroup, SourceRoom; the
\* user_id of a group or room source may be None
Source(type, user_id, group_id, room_id) ==
    [type |-> type, user_id |-> user_id, group_id |-> group_id, room_id |-> room_id]

SampleSources ==
    { Source("user", "U1", "None", "None"),
      Source("group", "U1", "G1", "None"),
      Source("group", "None", "G1", "None"),
      Source("room", "None", "None", "R1") }

\* every text from a direct chat; an expense and a cancellation from
\* every kind of source
Events ==
    [text : SampleTexts, source : {Source("user", "U1", "None", "None")}]
    \cup [text : {<<"ka", "fei", " ", "5", "0">>, <<"jie", "shu">>},
          source : SampleSources]

NoEvent == [text |-> <<>>, source |-> Source("user", "None", "None", "None")]

Reply(err, content) == [err |-> err, content |-> content]

MCat == Mem("category", StrV(Shi))
MItem == Mem("item", StrV(KaFei))
MPrice == Mem("unitPrice", IntV(50))
MQty == Mem("quantity", IntV(1))
MNote == Mem("note", StrV(LineNote))

\* what openai.ChatCompletion.create may answer
GptReplies ==
    { Reply(TRUE, <<>>),                                   \* the request raises
      Reply(FALSE, <<TXT>>),                               \* prose, no braces
      Reply(FALSE, <<LB, MCat>>),                          \* no closing brace
      Reply(FALSE, <<RB, TXT, LB>>),                       \* } before {
      Reply(FALSE, <<LB, TXT, RB>>),                       \* braces, not JSON
      Reply(FALSE, <<LB, MCat, RB, TXT, LB, MItem, RB>>),  \* two objects
      Reply(FALSE, <<LB, RB>>),                            \* {}
      Reply(FALSE, <<TXT, LB, WSP, MCat, MItem, MPrice, MQty, MNote, RB, TXT>>),
      Reply(FALSE, <<LB, MCat, MItem, MPrice, Mem("quantity", IntV(2)), RB>>),
      Reply(FALSE, <<LB, MCat, MItem, MPrice, RB>>),       \* no quantity
      Reply(FALSE, <<LB, MCat, MItem, MPrice, Mem("quantity", NoneV), RB>>),
      Reply(FALSE, <<LB, Mem("category", IntV(12)), MItem, MPrice, MQty, RB>>),
      Reply(FALSE, <<LB, Mem("category", StrV(<<>>)), Mem("item", NoneV),
                     Mem("unitPrice", StrV(<<"5", "0">>)),
                     Mem("quantity", FloatV(1)), RB>>),
      Reply(FALSE, <<LB, MCat, Mem("unitPrice", FloatV(12)), MQty, RB>>),
      Reply(FALSE, <<LB, MCat, MItem, Mem("unitPrice", BoolV(1)), MQty, RB>>),
      Reply(FALSE, <<LB, MCat, MItem, Mem("unitPrice", IntV(0 - 5)),
                     Mem("quantity", IntV(0)), RB>>) }

\* datetime.now().strftime("%Y-%m-%d %H:%M"): some minute
NowSamples == { StrV(<<"t1">>), StrV(<<"t2">>) }

Header ==
    << StrV(<<"date">>), StrV(<<"category">>), StrV(<<"item">>),
       StrV(<<"unitPrice">>), StrV(<<"quantity">>), StrV(<<"total">>),
       StrV(<<"note">>), StrV(<<"kcal">>), StrV(<<"sugar">>),
       StrV(<<"remaining">>), StrV(<<"burn">>) >>

OldRow ==
    << StrV(<<"t0">>), StrV(Shi), StrV(KaFei), IntV(45), IntV(1), IntV(45),
       StrV(LineNote), EmptyStr, EmptyStr, EmptyStr, EmptyStr >>

\* the sheet when the server starts: its header, with or without history
InitLedgers == { <<Header>>, <<Header, OldRow>> }

NoRecord == [none |-> TRUE, d |-> <<>>]

\* -------------------------------------------------------------- state
VARIABLES
    ledger,        \* the sheet: rows of cells, row 1 the header
    delivered,     \* webhook deliveries so far
    pc,            \* per worker: where its callback stands
    event,         \* per worker: the MessageEvent being handled
    matched_rows,  \* per worker: local of handle_message
    record,        \* per worker: what analyze_message_with_gpt returned
    retry,         \* per worker: the retry argument of the running call
    budget,        \* per worker: the retry argument of the outermost call
    gptCalls,      \* per worker: ChatCompletion.create calls of this delivery
    badReplies,    \* per worker: how many of them did not decode
    readLog,       \* per worker: get_all_values calls, each with its result
    appendLog,     \* per worker: append_row calls, each with its row and result
    replyLog,      \* per worker: reply_message calls, each with its result
    pushLog,       \* per worker: push_message calls, each with its result
    outcome,       \* per worker: the branch on which handle_message ended
    raised,        \* per worker: an exception left handle_message
    response       \* per worker: what callback answered the transport

vars ==
    << ledger, delivered, pc, event, matched_rows, record, retry, budget,
       gptCalls, badReplies, readLog, appendLog, replyLog, pushLog, outcome,
       raised, response >>

\* text = event.message.text.strip(), line 139
Text(w) == Strip(event[w].text)

\* the argument every push_message of handle_message is given
PushTarget(source) == source.user_id

\* results push_message can have: the API rejects a message without recipient
PushResults(to) == IF to = "None" THEN {FALSE} ELSE BOOLEAN

Fresh ==
    /\ pc = [w \in Workers |-> "idle"]
    /\ event = [w \in Workers |-> NoEvent]
    /\ matched_rows = [w \in Workers |-> <<>>]
    /\ record = [w \in Workers |-> NoRecord]
    /\ retry = [w \in Workers |-> 0]
    /\ budget = [w \in Workers |-> 0]
    /\ gptCalls = [w \in Workers |-> 0]
    /\ badReplies = [w \in Workers |-> 0]
    /\ readLog = [w \in Workers |-> <<>>]
    /\ appendLog = [w \in Workers |-> <<>>]
    /\ replyLog = [w \in Workers |-> <<>>]
    /\ pushLog = [w \in Workers |-> <<>>]
    /\ outcome = [w \in Workers |-> "None"]
    /\ raised = [w \in Workers |-> FALSE]
    /\ response = [w \in Workers |-> "none"]

Init ==
    /\ ledger \in InitLedgers
    /\ delivered = 0
    /\ Fresh

\* a new request reaches worker w: the locals of the previous one are gone
Begin(w, e, at) ==
    /\ pc[w] \in {"idle", "done"}
    /\ delivered < NumInvocations
    /\ delivered' = delivered + 1
    /\ pc' = [pc EXCEPT ![w] = at]
    /\ event' = [event EXCEPT ![w] = e]
    /\ matched_rows' = [matched_rows EXCEPT ![w] = <<>>]
    /\ record' = [record EXCEPT ![w] = NoRecord]
    /\ retry' = [retry EXCEPT ![w] = 0]
    /\ budget' = [budget EXCEPT ![w] = 0]
    /\ gptCalls' = [gptCalls EXCEPT ![w] = 0]
    /\ badReplies' = [badReplies EXCEPT ![w] = 0]
    /\ readLog' = [readLog EXCEPT ![w] = <<>>]
    /\ appendLog' = [appendLog EXCEPT ![w] = <<>>]
    /\ replyLog' = [replyLog EXCEPT ![w] = <<>>]
    /\ pushLog' = [pushLog EXCEPT ![w] = <<>>]
    /\ outcome' = [outcome EXCEPT ![w] = "None"]
    /\ raised' = [raised EXCEPT ![w] = FALSE]
    /\ UNCHANGED ledger

\* callback, lines 127-131: the signature is good, handle_message is called
CallbackInvokeOf(w, events) ==
    \E e \in events :
        /\ Begin(w, e, "intake")
        /\ response' = [response EXCEPT ![w] = "none"]

CallbackInvoke(w) == CallbackInvokeOf(w, Events)

\* callback, lines 132-133: InvalidSignatureError, abort(400)
CallbackBadSignature(w) ==
    \E e \in Events :
        /\ Begin(w, e, "done")
        /\ response' = [response EXCEPT ![w] = "400"]

\* lines 143-148: the cancel branch; reply_message is outside every try
CancelReply(w) ==
    /\ pc[w] = "intake"
    /\ IsCancel(Text(w))
    /\ \E ok \in BOOLEAN :
        /\ replyLog' = [replyLog EXCEPT ![w] = Append(@, [kind |-> "cancelled", ok |-> ok])]
        /\ raised' = [raised EXCEPT ![w] = ~ok]
    /\ outcome' = [outcome EXCEPT ![w] = "Cancelled"]
    /\ pc' = [pc EXCEPT ![w] = "returned"]
    /\ UNCHANGED << ledger, delivered, event, matched_rows, record, retry, budget,
                    gptCalls, badReplies, readLog, appendLog, pushLog, response >>

\* mutant: the handler goes from the acknowledgment straight to the analysis
AfterAck_ToGpt(ok) == "gpt"

\* mutant: a failed acknowledgment ends the handler
AfterAck_Abort(ok) == IF ok THEN "read" ELSE "returned"

\* where control goes after the acknowledgment: except: pass, then line 158
AfterAck(ok) == "read"

\* lines 150-156: the acknowledgment
AckReply(w) ==
    /\ pc[w] = "intake"
    /\ ~IsCancel(Text(w))
    /\ \E ok \in BOOLEAN :
        /\ replyLog' = [replyLog EXCEPT ![w] = Append(@, [kind |-> "ack", ok |-> ok])]
        /\ pc' = [pc EXCEPT ![w] = AfterAck(ok)]
    /\ UNCHANGED << ledger, delivered, event, matched_rows, record, retry, budget,
                    gptCalls, badReplies, readLog, appendLog, pushLog, outcome,
                    raised, response >>

\* rows the comprehension of line 162 inspects: every row after the header
RowsInspected(all_data) == Len(SkipHeader(all_data))

\* where control goes after Step 1 when the lookup found rows / found none
AfterLookup(matched) == IF matched # <<>> THEN "preview" ELSE "gpt"

\* lines 158-163: get_all_values, text.split()[0], the comprehension.
\* get_all_values may raise; split()[0] raises IndexError on a text
\* without words; both land in the except of line 202.
ReadLedger(w) ==
    /\ pc[w] = "read"
    /\ \E ok \in BOOLEAN :
        LET all_data == GetAllValues(ledger)
            words == Split(Text(w))
            found == IF words = <<>> THEN <<>> ELSE MatchedRows(all_data, words[1])
        IN /\ readLog' = [readLog EXCEPT ![w] =
                 Append(@, [ok |-> ok,
                            inspected |-> IF ok /\ words # <<>>
                                          THEN RowsInspected(all_data) ELSE 0])]
           /\ IF ok /\ words # <<>>
              THEN /\ matched_rows' = [matched_rows EXCEPT ![w] = found]
                   /\ pc' = [pc EXCEPT ![w] = AfterLookup(found)]
              ELSE /\ pc' = [pc EXCEPT ![w] = "except"]
                   /\ UNCHANGED matched_rows
    /\ retry' = [retry EXCEPT ![w] = DefaultRetry]
    /\ budget' = [budget EXCEPT ![w] = DefaultRetry]
    /\ UNCHANGED << ledger, delivered, event, record, gptCalls, badReplies,
                    appendLog, replyLog, pushLog, outcome, raised, response >>

\* one line_bot_api.push_message(event.source.user_id, ...) with its result
Push(w, kind, body, ok) ==
    pushLog' = [pushLog EXCEPT ![w] =
        Append(@, [to |-> PushTarget(event[w].source), kind |-> kind,
                   body |-> body, ok |-> ok])]

\* lines 163-168: the preview of the rows found
PushPreview(w) ==
    /\ pc[w] = "preview"
    /\ \E ok \in PushResults(PushTarget(event[w].source)) :
        /\ Push(w, "preview", Preview(matched_rows[w]), ok)
        /\ pc' = [pc EXCEPT ![w] = IF ok THEN "gpt" ELSE "except"]
    /\ UNCHANGED << ledger, delivered, event, matched_rows, record, retry, budget,
                    gptCalls, badReplies, readLog, appendLog, replyLog, outcome,
                    raised, response >>

\* mutant: no retry at all
CanRetry_Never(r) == FALSE

\* mutant: one retry too many
CanRetry_OffByOne(r) == r >= 0

\* line 119
CanRetry(r) == r > 0

\* lines 100-123: one attempt of analyze_message_with_gpt: the request, the
\* decoding, and on failure either the recursive call or return None
GptAttemptOf(w, replies) ==
    /\ pc[w] = "gpt"
    /\ \E reply \in replies :
        IF Decodes(reply)
        THEN /\ record' = [record EXCEPT ![w] = [none |-> FALSE, d |-> Decoded(reply)]]
             /\ pc' = [pc EXCEPT ![w] = "analyzed"]
             /\ UNCHANGED << retry, badReplies >>
        ELSE /\ badReplies' = [badReplies EXCEPT ![w] = @ + 1]
             /\ IF CanRetry(retry[w])
                THEN /\ retry' = [retry EXCEPT ![w] = @ - 1]
                     /\ UNCHANGED << pc, record >>
                ELSE /\ record' = [record EXCEPT ![w] = NoRecord]
                     /\ pc' = [pc EXCEPT ![w] = "analyzed"]
                     /\ UNCHANGED retry
    /\ gptCalls' = [gptCalls EXCEPT ![w] = @ + 1]
    /\ UNCHANGED << ledger, delivered, event, matched_rows, budget, readLog,
                    appendLog, replyLog, pushLog, outcome, raised, response >>

GptAttempt(w) == GptAttemptOf(w, GptReplies)

\* mutant: the return after the message is missing, the handler runs on into
\* code that raises
AfterNotice_NoReturn(ok) == "except"

\* lines 177 and 192: return once the message is sent; a send that raises
\* goes to the except of line 202
AfterNotice(ok) == IF ok THEN "returned" ELSE "except"

\* lines 172-177: nothing usable came back
AnalysisFailed(w) ==
    /\ pc[w] = "analyzed"
    /\ NotRecord(record[w])
    /\ \E ok \in PushResults(PushTarget(event[w].source)) :
        /\ Push(w, "extractionFailure", <<>>, ok)
        /\ pc' = [pc EXCEPT ![w] = AfterNotice(ok)]
    /\ outcome' = [outcome EXCEPT ![w] = "ExtractionFailure"]
    /\ UNCHANGED << ledger, delivered, event, matched_rows, record, retry, budget,
                    gptCalls, badReplies, readLog, appendLog, replyLog, raised,
                    response >>

\* lines 180-192: the question about the missing fields
AskMissing(w) ==
    /\ pc[w] = "analyzed"
    /\ ~NotRecord(record[w])
    /\ MISSING_FIELDS(record[w].d) # <<>>
    /\ \E ok \in PushResults(PushTarget(event[w].source)) :
        /\ Push(w, "missingFields", MISSING_FIELDS(record[w].d), ok)
        /\ pc' = [pc EXCEPT ![w] = AfterNotice(ok)]
    /\ outcome' = [outcome EXCEPT ![w] = "MissingFields"]
    /\ UNCHANGED << ledger, delivered, event, matched_rows, record, retry, budget,
                    gptCalls, badReplies, readLog, appendLog, replyLog, raised,
                    response >>

\* line 195 and lines 47-64: write_record_to_sheet; append_row may raise
WriteRecord(w) ==
    /\ pc[w] = "analyzed"
    /\ ~NotRecord(record[w])
    /\ MISSING_FIELDS(record[w].d) = <<>>
    /\ IF TotalRaises(record[w].d)
       THEN /\ pc' = [pc EXCEPT ![w] = "except"]
            /\ UNCHANGED << ledger, appendLog, outcome >>
       ELSE \E now \in NowSamples, ok \in BOOLEAN :
            LET row == Row(now, record[w].d)
            IN /\ appendLog' = [appendLog EXCEPT ![w] = Append(@, [row |-> row, ok |-> ok])]
               /\ ledger' = IF ok THEN AppendRow(ledger, row) ELSE ledger
               /\ pc' = [pc EXCEPT ![w] = IF ok THEN "confirm" ELSE "except"]
               /\ outcome' = [outcome EXCEPT ![w] = IF ok THEN "Written" ELSE @]
    /\ UNCHANGED << delivered, event, matched_rows, record, retry, budget, gptCalls,
                    badReplies, readLog, replyLog, pushLog, raised, response >>

\* line 196: item, quantity and unitPrice * quantity of the reply text
ReplyText(rec) == << Get(rec, "item"), Get(rec, "quantity"), Total(rec) >>

\* lines 196-200: the confirmation
Confirm(w) ==
    /\ pc[w] = "confirm"
    /\ \E ok \in PushResults(PushTarget(event[w].source)) :
        /\ Push(w, "confirmation", ReplyText(record[w].d), ok)
        /\ pc' = [pc EXCEPT ![w] = IF ok THEN "returned" ELSE "except"]
    /\ UNCHANGED << ledger, delivered, event, matched_rows, record, retry, budget,
                    gptCalls, badReplies, readLog, appendLog, replyLog, outcome,
                    raised, response >>

\* lines 202-208: the handler of the try of line 158; its own push_message
\* is guarded by nothing
Except(w) ==
    /\ pc[w] = "except"
    /\ \E ok \in PushResults(PushTarget(event[w].source)) :
        /\ Push(w, "internalError", <<>>, ok)
        /\ raised' = [raised EXCEPT ![w] = ~ok]
    /\ outcome' = [outcome EXCEPT ![w] = "InternalError"]
    /\ pc' = [pc EXCEPT ![w] = "returned"]
    /\ UNCHANGED << ledger, delivered, event, matched_rows, record, retry, budget,
                    gptCalls, badReplies, readLog, appendLog, replyLog, response >>

\* what the transport gets: 'OK' of line 134, or the server's 500 when an
\* exception other than InvalidSignatureError leaves handler.handle
ResponseFor(exc) == IF exc THEN "500" ELSE "OK"

\* lines 131-134: handler.handle returns or raises
CallbackReturn(w) ==
    /\ pc[w] = "returned"
    /\ response' = [response EXCEPT ![w] = ResponseFor(raised[w])]
    /\ pc' = [pc EXCEPT ![w] = "done"]
    /\ UNCHANGED << ledger, delivered, event, matched_rows, record, retry, budget,
                    gptCalls, badReplies, readLog, appendLog, replyLog, pushLog,
                    outcome, raised >>

\* one step of the callback that worker w runs
Handle(w) ==
    \/ CallbackInvoke(w)
    \/ CallbackBadSignature(w)
    \/ CancelReply(w)
    \/ AckReply(w)
    \/ ReadLedger(w)
    \/ PushPreview(w)
    \/ GptAttempt(w)
    \/ AnalysisFailed(w)
    \/ AskMissing(w)
    \/ WriteRecord(w)
    \/ Confirm(w)
    \/ Except(w)
    \/ CallbackReturn(w)

\* deliveries handled one after the other, by one worker
Next == Handle(1)

Spec == Init /\ [][Next]_vars

\* ---------------------------------------------------------------------
\* analyze_message_with_gpt on its own: worker 1 stands at the call, with
\* any text and any retry budget up to MaxRetries
InitGpt ==
    /\ ledger = <<Header>>
    /\ delivered = 1
    /\ \E e \in Events, r \in 0..MaxRetries :
        /\ pc = [w \in Workers |-> IF w = 1 THEN "gpt" ELSE "idle"]
        /\ event = [w \in Workers |-> IF w = 1 THEN e ELSE NoEvent]
        /\ retry = [w \in Workers |-> IF w = 1 THEN r ELSE 0]
        /\ budget = [w \in Workers |-> IF w = 1 THEN r ELSE 0]
    /\ matched_rows = [w \in Workers |-> <<>>]
    /\ record = [w \in Workers |-> NoRecord]
    /\ gptCalls = [w \in Workers |-> 0]
    /\ badReplies = [w \in Workers |-> 0]
    /\ readLog = [w \in Workers |-> <<>>]
    /\ appendLog = [w \in Workers |-> <<>>]
    /\ replyLog = [w \in Workers |-> <<>>]
    /\ pushLog = [w \in Workers |-> <<>>]
    /\ outcome = [w \in Workers |-> "None"]
    /\ raised = [w \in Workers |-> FALSE]
    /\ response = [w \in Workers |-> "none"]

NextGpt == GptAttempt(1)

SpecGpt == InitGpt /\ [][NextGpt]_vars

\* ---------------------------------------------------------------------
\* two deliveries handled by two request threads at once: each worker runs
\* one callback, their steps interleave in every order (one after the other
\* included), the sheet is shared
ConcEvents ==
    [text : {<<"ka", "fei", " ", "5", "0">>, <<"jie", "shu">>},
     source : {Source("user", "U1", "None", "None")}]

ConcReplies ==
    { Reply(TRUE, <<>>),
      Reply(FALSE, <<TXT, LB, WSP, MCat, MItem, MPrice, MQty, MNote, RB, TXT>>),
      Reply(FALSE, <<LB, MCat, MItem, MPrice, Mem("quantity", IntV(2)), RB>>),
      Reply(FALSE, <<LB, MCat, MItem, MPrice, RB>>) }

\* the one callback of worker w
CallbackOnce(w) == pc[w] = "idle" /\ CallbackInvokeOf(w, ConcEvents)

HandleConc(w) ==
    \/ CallbackOnce(w)
    \/ CancelReply(w)
    \/ AckReply(w)
    \/ ReadLedger(w)
    \/ PushPreview(w)
    \/ GptAttemptOf(w, ConcReplies)
    \/ AnalysisFailed(w)
    \/ AskMissing(w)
    \/ WriteRecord(w)
    \/ Confirm(w)
    \/ Except(w)
    \/ CallbackReturn(w)

NextConc == \E w \in Workers : HandleConc(w)

SpecConc == Init /\ [][NextConc]_vars

\* ---------------------------------------------------------------------
\* the history lookup over sheets with more history: worker 1 has sent the
\* acknowledgment and stands at the try of line 158
ItemRow(at, item, price) ==
    << StrV(<<at>>), StrV(Shi), StrV(item), IntV(price), IntV(1), IntV(price),
       StrV(LineNote), EmptyStr, EmptyStr, EmptyStr, EmptyStr >>

\* sheets: no history; one row of the item; a row whose item cell holds the
\* item inside a longer name; four rows of the item among others
ScanLedgers ==
    { <<Header>>,
      <<Header, OldRow>>,
      <<Header, ItemRow("t1", <<"bing", "ka", "fei">>, 60), OldRow>>,
      <<Header, ItemRow("t1", <<"cha">>, 30), OldRow, ItemRow("t2", KaFei, 50),
        ItemRow("t3", <<"na", "tie">>, 70), ItemRow("t4", KaFei, 55),
        ItemRow("t5", KaFei, 60)>> }

\* texts: an item of the history, a word of the header, an item with one
\* row, nothing but whitespace
ScanTexts ==
    { <<"ka", "fei", " ", "5", "0">>,
      <<"item", " ", "5", "0">>,
      <<"cha">>,
      <<" ">> }

InitScan ==
    /\ ledger \in ScanLedgers
    /\ delivered = 1
    /\ \E t \in ScanTexts :
          event = [w \in Workers |->
                     IF w = 1
                     THEN [text |-> t, source |-> Source("user", "U1", "None", "None")]
                     ELSE NoEvent]
    /\ pc = [w \in Workers |-> IF w = 1 THEN "read" ELSE "idle"]
    /\ replyLog = [w \in Workers |->
                     IF w = 1 THEN <<[kind |-> "ack", ok |-> TRUE]>> ELSE <<>>]
    /\ matched_rows = [w \in Workers |-> <<>>]
    /\ record = [w \in Workers |-> NoRecord]
    /\ retry = [w \in Workers |-> 0]
    /\ budget = [w \in Workers |-> 0]
    /\ gptCalls = [w \in Workers |-> 0]
    /\ badReplies = [w \in Workers |-> 0]
    /\ readLog = [w \in Workers |-> <<>>]
    /\ appendLog = [w \in Workers |-> <<>>]
    /\ pushLog = [w \in Workers |-> <<>>]
    /\ outcome = [w \in Workers |-> "None"]
    /\ raised = [w \in Workers |-> FALSE]
    /\ response = [w \in Workers |-> "none"]

NextScan ==
    \/ ReadLedger(1)
    \/ PushPreview(1)
    \/ GptAttemptOf(1, ConcReplies)
    \/ AnalysisFailed(1)
    \/ AskMissing(1)
    \/ WriteRecord(1)
    \/ Confirm(1)
    \/ Except(1)
    \/ CallbackReturn(1)

SpecScan == InitScan /\ [][NextScan]_vars

\* ================================================================ claims

\* handle_message ran to its end for the delivery worker w holds
Ended(w) == pc[w] \in {"returned", "done"} /\ response[w] # "400"

\* some cancellation token occurs in the text, at any place
HasCancelToken(text) ==
    \E kw \in CANCEL_KEYWORDS :
        \E i \in 1..Len(text) : \E j \in i..Len(text) : SubSeq(text, i, j) = kw

\* C1: a delivery whose text contains a cancellation token as a substring
\* never issues an extraction request nor a ledger append, and its handler
\* ends on the Cancelled branch of lines 143-148 (whether the reply of that
\* branch could be sent is another matter, C6).
C1_CancelledNoWork ==
    \A w \in Workers :
        HasCancelToken(event[w].text) =>
            /\ gptCalls[w] = 0
            /\ appendLog[w] = <<>>
            /\ (Ended(w) => outcome[w] = "Cancelled")

C1_Witness ==
    \E w \in Workers :
        /\ pc[w] = "done"
        /\ event[w].text = <<"ka", "fei", "tiao", "guo", "le">>
        /\ outcome[w] = "Cancelled"
        /\ replyLog[w] = <<[kind |-> "cancelled", ok |-> TRUE]>>

\* C2: when no response decodes, analyze_message_with_gpt(text, retry = r)
\* makes exactly r + 1 requests and returns None, for every r >= 0; while it
\* runs it has made at most r requests that failed.
C2_ExactAttempts ==
    \A w \in Workers :
        /\ (pc[w] = "analyzed" /\ badReplies[w] = gptCalls[w]) =>
               (gptCalls[w] = budget[w] + 1 /\ record[w] = NoRecord)
        /\ (pc[w] = "gpt" => gptCalls[w] <= budget[w])
        /\ gptCalls[w] <= budget[w] + 1

C2_Witness ==
    \E w \in Workers :
        /\ pc[w] = "analyzed"
        /\ budget[w] = MaxRetries
        /\ badReplies[w] = MaxRetries + 1
        /\ gptCalls[w] = MaxRetries + 1
        /\ record[w] = NoRecord

\* the rules of the record schema, as the specification words them
NonEmptyString(v) == v.t = "str" /\ v.s # <<>>
IntegerValued(v) == v.t = "int"
CategoryRuleBroken(d) == ~(HasKey(d, "category") /\ NonEmptyString(Get(d, "category")))
ItemRuleBroken(d) == ~(HasKey(d, "item") /\ NonEmptyString(Get(d, "item")))
UnitPriceRuleBroken(d) == ~(HasKey(d, "unitPrice") /\ IntegerValued(Get(d, "unitPrice")))
QuantityRuleBroken(d) == HasKey(d, "quantity") /\ ~IntegerValued(Get(d, "quantity"))

RulesBroken(d) ==
    (IF CategoryRuleBroken(d) THEN <<"category">> ELSE <<>>)
    \o (IF ItemRuleBroken(d) THEN <<"item">> ELSE <<>>)
    \o (IF UnitPriceRuleBroken(d) THEN <<"unitPrice">> ELSE <<>>)
    \o (IF QuantityRuleBroken(d) THEN <<"quantity">> ELSE <<>>)

\* C3: for every decoded mapping the list of missing-field descriptors holds
\* one descriptor per broken rule (category non-empty string, item non-empty
\* string, unitPrice integer, quantity integer when present) and no other,
\* in the order category, item, unitPrice, quantity.
C3_DescriptorsAreBrokenRules ==
    \A w \in Workers :
        ~NotRecord(record[w]) => MISSING_FIELDS(record[w].d) = RulesBroken(record[w].d)

\* every collaborator call of the delivery of worker w succeeded
AllCallsOk(w) ==
    /\ \A i \in DOMAIN replyLog[w] : replyLog[w][i].ok
    /\ \A i \in DOMAIN readLog[w] : readLog[w][i].ok
    /\ \A i \in DOMAIN appendLog[w] : appendLog[w][i].ok
    /\ \A i \in DOMAIN pushLog[w] : pushLog[w][i].ok

\* category, item and unitPrice obey their rules and there is no quantity
ValidButNoQuantity(d) ==
    /\ ~CategoryRuleBroken(d)
    /\ ~ItemRuleBroken(d)
    /\ ~UnitPriceRuleBroken(d)
    /\ ~HasKey(d, "quantity")

\* C4 as claimed: a mapping with valid category, item and unitPrice and no
\* quantity is written with quantity 1 and total = unitPrice, and confirmed.
C4_QuantityDefaultsToOne ==
    \A w \in Workers :
        (pc[w] = "done" /\ ~record[w].none /\ ValidButNoQuantity(record[w].d)
            /\ AllCallsOk(w)) =>
            /\ outcome[w] = "Written"
            /\ Len(appendLog[w]) = 1
            /\ appendLog[w][1].row[5] = IntV(1)
            /\ appendLog[w][1].row[6] = IntV(Get(record[w].d, "unitPrice").n)
            /\ \E i \in DOMAIN pushLog[w] : pushLog[w][i].kind = "confirmation"

\* C5: every row handed to append_row has 11 cells in the order timestamp,
\* category, item, unitPrice, quantity, total, note, four optional fields;
\* its category, item, unitPrice and quantity cells are the fields of the
\* validated record and its total cell is unitPrice * quantity of that row;
\* the same product holds of every row of the ledger.
C5_RowLayout ==
    /\ \A w \in Workers : \A i \in DOMAIN appendLog[w] :
        LET row == appendLog[w][i].row
            d == record[w].d
        IN /\ Len(row) = 11
           /\ row[1] \in NowSamples
           /\ HasKey(d, "category") /\ row[2] = Get(d, "category")
           /\ HasKey(d, "item") /\ row[3] = Get(d, "item")
           /\ HasKey(d, "unitPrice") /\ row[4] = Get(d, "unitPrice")
           /\ HasKey(d, "quantity") /\ row[5] = Get(d, "quantity")
           /\ row[6] = IntV(row[4].n * row[5].n)
           /\ row[7] = GetOr(d, "note", EmptyStr)
           /\ row[8] = GetOr(d, "caloriesIntake", EmptyStr)
           /\ row[9] = GetOr(d, "sugarIntake", EmptyStr)
           /\ row[10] = GetOr(d, "remaining", EmptyStr)
           /\ row[11] = GetOr(d, "dailyBurn", EmptyStr)
           /\ appendLog[w][i].ok => \E j \in 2..Len(ledger) : ledger[j] = row
    /\ \A i \in 2..Len(ledger) :
        /\ Len(ledger[i]) = 11
        /\ ledger[i][6] = IntV(ledger[i][4].n * ledger[i][5].n)

C5_Witness ==
    \E w \in Workers :
        /\ pc[w] = "done"
        /\ Len(appendLog[w]) = 1
        /\ appendLog[w][1].ok
        /\ Get(record[w].d, "quantity") = IntV(2)
        /\ ledger[Len(ledger)][6] = IntV(100)
        /\ ledger[Len(ledger)][2] = StrV(Shi)
        /\ ledger[Len(ledger)][3] = StrV(KaFei)

\* C6: no failure inside handle_message leaves it: the handler returns
\* normally and the callback acknowledges receipt, in every run.
C6_NothingEscapes ==
    \A w \in Workers :
        /\ ~raised[w]
        /\ (pc[w] = "done" /\ response[w] # "400") => response[w] = "OK"

\* C7, read with the deadline at 0 (the code takes no deadline, so what it
\* does under that deadline is what it always does): the scan inspects no
\* row, and the run ends with LookupTimeout without going on to the write.
C7_DeadlineStopsScan ==
    \A w \in Workers :
        /\ \A i \in DOMAIN readLog[w] : readLog[w][i].inspected = 0
        /\ (Ended(w) /\ readLog[w] # <<>> /\ AllCallsOk(w)) =>
              (outcome[w] = "LookupTimeout" /\ appendLog[w] = <<>>)

\* C8: the ledger only grows by one row at its end, in a step that calls
\* append_row: the header and every earlier row stay where they are; one
\* delivery calls append_row at most once, so a rejected append is not
\* retried and a delivery adds at most one row.
C8_AppendOnly ==
    [][ /\ Len(ledger') \in {Len(ledger), Len(ledger) + 1}
        /\ SubSeq(ledger', 1, Len(ledger)) = ledger
        /\ ledger'[1] = Header
        /\ (ledger' # ledger =>
              \E w \in Workers :
                  /\ Len(appendLog'[w]) = Len(appendLog[w]) + 1
                  /\ appendLog'[w][Len(appendLog'[w])].ok
                  /\ ledger' = Append(ledger, appendLog'[w][Len(appendLog'[w])].row))
        /\ \A w \in Workers : Len(appendLog'[w]) <= 1
      ]_vars

C8_Witness ==
    /\ Len(ledger) = 4
    /\ ledger[1] = Header
    /\ ledger[2] = OldRow
    /\ delivered = 2
    /\ pc[1] = "done"
    /\ Len(appendLog[1]) = 1

\* the identifier the event came from: the user of a direct chat, the group,
\* the room
SourceId(source) ==
    CASE source.type = "user" -> source.user_id
      [] source.type = "group" -> source.group_id
      [] OTHER -> source.room_id

\* C9: every follow-up message is addressed to the source identifier of the
\* event (user, group or room), and no send is attempted without one.
C9_AddressedToSource ==
    \A w \in Workers : \A i \in DOMAIN pushLog[w] :
        /\ pushLog[w][i].to = SourceId(event[w].source)
        /\ pushLog[w][i].to # "None"

\* C10: for a message that is not cancelled the acknowledgment step, whether
\* its send succeeds or fails, leaves the handler at the ledger read with the
\* ledger, the outcome and every other local as they were and no exception
\* raised; a delivery whose acknowledgment failed has read the ledger by the
\* time it ends.
C10_AckFailureIsSwallowed ==
    [][ \A w \in Workers :
          /\ (pc[w] = "intake" /\ pc'[w] # "intake" /\ ~HasCancelToken(event[w].text)) =>
                /\ pc'[w] = "read"
                /\ ~raised'[w]
                /\ outcome'[w] = outcome[w]
                /\ << ledger, matched_rows, record, gptCalls, readLog, appendLog, pushLog >>'
                     = << ledger, matched_rows, record, gptCalls, readLog, appendLog, pushLog >>
          /\ (Len(replyLog'[w]) > 0 /\ replyLog'[w][1].kind = "ack"
                /\ pc'[w] \in {"returned", "done"}) => readLog'[w] # <<>>
      ]_vars

C10_Witness ==
    \E w \in Workers :
        /\ pc[w] = "done"
        /\ replyLog[w] = <<[kind |-> "ack", ok |-> FALSE]>>
        /\ outcome[w] = "Written"
        /\ Len(appendLog[w]) = 1
        /\ response[w] = "OK"

\* the mapping obeys every rule of the schema and names a quantity
ValidRecord(rec) ==
    /\ ~rec.none
    /\ RulesBroken(rec.d) = <<>>
    /\ HasKey(rec.d, "quantity")

\* the row of the delivery of worker w is in the sheet as the code built it
Wrote(w) == Len(appendLog[w]) = 1 /\ appendLog[w][1].ok

\* C11: when the same message is delivered twice and both deliveries extract
\* the same valid record (every collaborator call succeeding), the ledger
\* gains two rows, equal in every cell but possibly the timestamp; a delivery
\* whose scan found rows, the row of the first delivery among them, still
\* goes on to extraction and, with a valid record, to its own append.
C11_RedeliveryWritesTwice ==
    /\ \A w1, w2 \in Workers :
        (/\ w1 # w2
         /\ pc[w1] = "done" /\ pc[w2] = "done"
         /\ event[w1] = event[w2]
         /\ ~HasCancelToken(event[w1].text)
         /\ record[w1] = record[w2]
         /\ ValidRecord(record[w1])
         /\ AllCallsOk(w1) /\ AllCallsOk(w2)) =>
            /\ Wrote(w1) /\ Wrote(w2)
            /\ Tail(appendLog[w1][1].row) = Tail(appendLog[w2][1].row)
            /\ \E L0 \in InitLedgers :
                \/ ledger = L0 \o <<appendLog[w1][1].row, appendLog[w2][1].row>>
                \/ ledger = L0 \o <<appendLog[w2][1].row, appendLog[w1][1].row>>
    /\ \A w \in Workers :
        (Ended(w) /\ matched_rows[w] # <<>> /\ AllCallsOk(w)) =>
            /\ gptCalls[w] > 0
            /\ (ValidRecord(record[w]) => Wrote(w))

C11_Witness ==
    /\ pc[1] = "done" /\ pc[2] = "done"
    /\ event[1] = event[2]
    /\ record[1] = record[2]
    /\ ValidRecord(record[1])
    /\ AllCallsOk(1) /\ AllCallsOk(2)
    /\ ledger = <<Header, appendLog[1][1].row, appendLog[2][1].row>>
    /\ appendLog[1][1].row[1] # appendLog[2][1].row[1]
    /\ matched_rows[2] = <<[j \in 1..11 |-> CellStr(appendLog[1][1].row[j])]>>
    /\ Len(pushLog[2]) = 2
    /\ pushLog[2][1].kind = "preview"
    /\ pushLog[2][2].kind = "confirmation"

\* some call on the path of the delivery of worker w failed, the swallowed
\* acknowledgment and the last message of the except handler left aside
SomeStepFailed(w) ==
    \/ \E i \in DOMAIN readLog[w] : ~readLog[w][i].ok
    \/ (readLog[w] # <<>> /\ Split(Text(w)) = <<>>)
    \/ \E i \in DOMAIN appendLog[w] : ~appendLog[w][i].ok
    \/ \E i \in DOMAIN pushLog[w] :
          pushLog[w][i].kind # "internalError" /\ ~pushLog[w][i].ok
    \/ (~NotRecord(record[w]) /\ MISSING_FIELDS(record[w].d) = <<>>
          /\ TotalRaises(record[w].d))

\* the outcome a delivery has when it is handled alone, from nothing but its
\* own text, its own extraction result and the results of its own calls
OutcomeAlone(w) ==
    IF HasCancelToken(event[w].text) THEN "Cancelled"
    ELSE IF SomeStepFailed(w) THEN "InternalError"
    ELSE IF NotRecord(record[w]) THEN "ExtractionFailure"
    ELSE IF MISSING_FIELDS(record[w].d) # <<>> THEN "MissingFields"
    ELSE "Written"

\* the rows a delivery put into the sheet
OkRows(w) == IF Wrote(w) THEN <<appendLog[w][1].row>> ELSE <<>>

\* C12: with two deliveries handled at once, in every interleaving of their
\* steps, each delivery ends with the outcome it has alone (a function of its
\* own text, record and call results); the sheet is at every moment the
\* initial sheet followed by the rows appended so far, none lost; a delivery
\* that ends Written has exactly one row there, built from its own record
\* only; and when every call succeeds the sheet has gained as many rows as
\* deliveries ended Written.
C12_ConcurrentDeliveries ==
    /\ \A w \in Workers : pc[w] = "done" => outcome[w] = OutcomeAlone(w)
    /\ \E L0 \in InitLedgers :
          \/ ledger = L0 \o OkRows(1) \o OkRows(2)
          \/ ledger = L0 \o OkRows(2) \o OkRows(1)
    /\ \A w \in Workers :
          /\ (Ended(w) /\ outcome[w] = "Written") => Wrote(w)
          /\ Len(appendLog[w]) <= 1
          /\ \A i \in DOMAIN appendLog[w] :
                \E now \in NowSamples : appendLog[w][i].row = Row(now, record[w].d)
    /\ (pc[1] = "done" /\ pc[2] = "done" /\ AllCallsOk(1) /\ AllCallsOk(2)) =>
          \E L0 \in InitLedgers :
              Len(ledger) - Len(L0) =
                  Cardinality({w \in Workers : outcome[w] = "Written"})

\* both deliveries read the sheet before either wrote to it, and they wrote
\* different records
C12_Witness ==
    /\ pc[1] = "done" /\ pc[2] = "done"
    /\ outcome[1] = "Written" /\ outcome[2] = "Written"
    /\ matched_rows[1] = <<>> /\ matched_rows[2] = <<>>
    /\ Get(record[1].d, "quantity") = IntV(1)
    /\ Get(record[2].d, "quantity") = IntV(2)
    /\ ledger = <<Header, appendLog[2][1].row, appendLog[1][1].row>>
    /\ ledger[2][6] = IntV(100) /\ ledger[3][6] = IntV(50)

\* the delivery of worker w sent a preview of rows found
SentPreview(w) == \E i \in DOMAIN pushLog[w] : pushLog[w][i].kind = "preview"

\* C13 as claimed: the sheet is read, and a preview sent, only once the
\* extraction gave a mapping and validation found no defect, so a run ending
\* in ExtractionFailure or MissingFields has read nothing and previewed
\* nothing.
C13_ScanAfterValidation ==
    \A w \in Workers :
        /\ readLog[w] # <<>> =>
              (~NotRecord(record[w]) /\ MISSING_FIELDS(record[w].d) = <<>>)
        /\ (Ended(w) /\ outcome[w] \in {"ExtractionFailure", "MissingFields"}) =>
              (readLog[w] = <<>> /\ ~SentPreview(w))

\* C13 amended: the order is intake, scan, extraction, validation, write. The
\* sheet is read once, right after the acknowledgment; the preview, if any,
\* is the first follow-up message and is sent before the first extraction
\* request; no extraction request is made before a successful read; the
\* append comes only after a mapping without defects. So a run ending in
\* ExtractionFailure or MissingFields has read the sheet.
C13_ScanBeforeExtraction ==
    \A w \in Workers :
        /\ Len(readLog[w]) <= 1
        /\ pc[w] \in {"read", "preview"} =>
              (gptCalls[w] = 0 /\ record[w] = NoRecord /\ pushLog[w] = <<>>
               /\ appendLog[w] = <<>>)
        /\ pc[w] = "preview" => (readLog[w] # <<>> /\ readLog[w][1].ok)
        /\ \A i \in DOMAIN pushLog[w] : pushLog[w][i].kind = "preview" => i = 1
        /\ gptCalls[w] > 0 => (Len(readLog[w]) = 1 /\ readLog[w][1].ok)
        /\ ~record[w].none => gptCalls[w] > 0
        /\ appendLog[w] # <<>> =>
              (~NotRecord(record[w]) /\ MISSING_FIELDS(record[w].d) = <<>>)
        /\ (Ended(w) /\ outcome[w] \in {"ExtractionFailure", "MissingFields"}) =>
              (Len(readLog[w]) = 1 /\ readLog[w][1].ok /\ gptCalls[w] > 0)

C13_Witness ==
    \E w \in Workers :
        /\ pc[w] = "done"
        /\ outcome[w] = "MissingFields"
        /\ readLog[w] = <<[ok |-> TRUE, inspected |-> 1]>>
        /\ Len(pushLog[w]) = 2
        /\ pushLog[w][1].kind = "preview" /\ pushLog[w][1].ok
        /\ pushLog[w][1].body = Preview(matched_rows[w])
        /\ pushLog[w][2].kind = "missingFields"

\* the cells of a row obey the record schema: category and item non-empty
\* strings, unitPrice an integer >= 0, quantity an integer >= 1
RowObeysSchema(row) ==
    /\ NonEmptyString(row[2])
    /\ NonEmptyString(row[3])
    /\ IntegerValued(row[4]) /\ row[4].n >= 0
    /\ IntegerValued(row[5]) /\ row[5].n >= 1

\* C14 as claimed: every row handed to append_row obeys the record schema,
\* and a decoded mapping that breaks it never reaches the write.
C14_RowsObeySchema ==
    \A w \in Workers : \A i \in DOMAIN appendLog[w] :
        RowObeysSchema(appendLog[w][i].row)

\* the word the scan looks for: text.split()[0]
Token(w) == Split(Text(w))[1]

\* rows after the header with a cell that contains the token
RowsContaining(all_data, token) ==
    LET has(row) == \E j \in 1..Len(row) : Contains(token, row[j])
    IN SelectSeq(SkipHeader(all_data), has)

\* the lookup of worker w is done and the sheet is still the one it read
JustScanned(w) ==
    /\ pc[w] \in {"preview", "gpt"}
    /\ gptCalls[w] = 0
    /\ appendLog = [v \in Workers |-> <<>>]

\* C15 as claimed: the rows the scan matched are the rows after the header
\* with a cell containing the token as a substring, in sheet order.
C15_MatchIsContainment ==
    \A w \in Workers :
        JustScanned(w) =>
            matched_rows[w] = RowsContaining(GetAllValues(ledger), Token(w))

\* C16 as claimed: the preview lists the first min(3, number of matches)
\* rows that contain the token, in sheet order, the header never among
\* them; without such a row no preview is sent.
C16_PreviewFirstThree ==
    \A w \in Workers :
        (JustScanned(w) /\ pc[w] = "gpt") =>
            LET M == RowsContaining(GetAllValues(ledger), Token(w))
            IN /\ SentPreview(w) <=> M # <<>>
               /\ SentPreview(w) =>
                     /\ Len(pushLog[w][1].body) = Min(3, Len(M))
                     /\ \A i \in 1..Len(pushLog[w][1].body) :
                           pushLog[w][1].body[i] = SubSeq(M[i], 1, 5)

\* the delivery of worker w sent the message of the given kind
Sent(w, kind) == \E i \in DOMAIN pushLog[w] : pushLog[w][i].kind = kind

\* C17 as claimed: the extraction-failure message goes out only when every
\* one of the retry + 1 attempts failed to decode an object; once some
\* attempt decoded an object, the empty object included, the run goes to
\* validation and ends MissingFields or Written.
C17_FailureOnlyAfterAllAttempts ==
    \A w \in Workers :
        /\ (Sent(w, "extractionFailure") \/ outcome[w] = "ExtractionFailure") =>
              /\ record[w].none
              /\ badReplies[w] = gptCalls[w]
              /\ gptCalls[w] = budget[w] + 1
        /\ (Ended(w) /\ ~record[w].none /\ AllCallsOk(w)) =>
              outcome[w] \in {"MissingFields", "Written"}

\* C18: analyze_message_with_gpt(text, retry = r) stops at the first response
\* that decodes. Every request is one step; a step whose response decodes
\* returns the object decoded from that response and is the last one; a step
\* whose response does not decode raises nothing, returns nothing yet and is
\* followed by another request exactly when fewer than r requests had been
\* made before it. So when the k-th response is the first that decodes,
\* k <= r + 1, exactly k requests were made, k - 1 of them failed.
C18_StopsAtFirstDecodable ==
    [][ \A w \in Workers :
          /\ pc[w] = "analyzed" => gptCalls'[w] = gptCalls[w]
          /\ gptCalls'[w] # gptCalls[w] =>
                /\ gptCalls'[w] = gptCalls[w] + 1
                /\ badReplies[w] = gptCalls[w]
                /\ gptCalls[w] <= budget[w]
                /\ ~raised'[w]
                /\ \/ /\ badReplies'[w] = badReplies[w]
                      /\ pc'[w] = "analyzed"
                      /\ \E reply \in GptReplies :
                            /\ Decodes(reply)
                            /\ record'[w] = [none |-> FALSE, d |-> Decoded(reply)]
                   \/ /\ badReplies'[w] = badReplies[w] + 1
                      /\ record'[w] = NoRecord
                      /\ pc'[w] = (IF gptCalls[w] < budget[w] THEN "gpt" ELSE "analyzed")
      ]_vars

\* the third response, the last one allowed, is the first that decodes
C18_Witness ==
    \E w \in Workers :
        /\ pc[w] = "analyzed"
        /\ budget[w] = MaxRetries
        /\ badReplies[w] = MaxRetries
        /\ gptCalls[w] = MaxRetries + 1
        /\ ~record[w].none
        /\ Get(record[w].d, "quantity") = IntV(2)

\* C19 as claimed: a delivery that sent the internal-error message has put
\* no row into the sheet.
C19_ErrorMessageMeansNoRow ==
    \A w \in Workers :
        Sent(w, "internalError") =>
            \A i \in DOMAIN appendLog[w] : ~appendLog[w][i].ok

\* the messages that tell the user how the delivery ended
TerminalKinds == {"extractionFailure", "missingFields", "confirmation", "internalError"}

\* C20: a delivery that is not cancelled and whose sends all succeed sends,
\* by its end, exactly one terminal message (extraction failure, missing
\* fields, confirmation or internal error), as its last message; a preview
\* is sent at most once and is then the first message, before the terminal
\* one; at no moment has a confirmation been sent without the append of
\* that delivery having succeeded before.
C20_OneTerminalMessage ==
    \A w \in Workers :
        /\ (Ended(w) /\ ~HasCancelToken(event[w].text)
              /\ \A i \in DOMAIN pushLog[w] : pushLog[w][i].ok) =>
              /\ pushLog[w] # <<>>
              /\ pushLog[w][Len(pushLog[w])].kind \in TerminalKinds
              /\ \A i \in 1..(Len(pushLog[w]) - 1) : pushLog[w][i].kind = "preview"
              /\ Len(pushLog[w]) <= 2
        /\ Sent(w, "confirmation") => (Wrote(w) /\ pc[w] \notin {"analyzed", "confirm"})

C20_Witness ==
    \E w \in Workers :
        /\ pc[w] = "done"
        /\ ~HasCancelToken(event[w].text)
        /\ Len(pushLog[w]) = 2
        /\ pushLog[w][1].kind = "preview" /\ pushLog[w][1].ok
        /\ pushLog[w][2].kind = "confirmation" /\ pushLog[w][2].ok
        /\ pushLog[w][2].body = ReplyText(record[w].d)
        /\ Wrote(w)
        /\ ledger[Len(ledger)] = appendLog[w][1].row

====
